---- MODULE Spec2Model ----
(***************************************************************************)
(* Lifecycle of indexer records of the indexer service.                    *)
(*                                                                         *)
(* The repository functions (insert, get, get_all, update_status,          *)
(* update_status_and_process_id), the row <-> model conversions and the    *)
(* Indexer handler trait are modelled from                                 *)
(* src/infra/repositories/indexer_repository.rs and                        *)
(* src/handlers/indexers/indexer_types/mod.rs.  The orchestrator           *)
(* operations (create / start / stop / fail), the queue consumers and the  *)
(* liveness monitor call these functions; their bodies follow the          *)
(* operation table of the specification (section 4.2 / 4.3).               *)
(***************************************************************************)
EXTENDS Integers, Sequences, FiniteSets, TLC

(* ---------------------------- bounds ----------------------------------- *)
MaxIndexers == 2
MaxOps == 3

Ids == 1..MaxIndexers
\* an id no row ever carries (a request for an indexer that does not exist)
BogusId == MaxIndexers + 1
\* the execution contexts that run concurrently: the HTTP handler, the
\* start-queue consumer and the failure-queue consumer
Workers == {"http", "start_consumer", "fail_consumer"}
Urls == {"u1", "u2"}

\* the target submitted with the request that creates indexer id: clients
\* submit different targets, which keeps the rows apart
UrlOf(id) == IF id % 2 = 1 THEN "u1" ELSE "u2"

None == "None"

\* Option<i64>
NoPid == <<>>
Some(x) == <<x>>

(* ---------------------- domain enumerations ---------------------------- *)
IndexerStatus == {"Created", "Running", "FailedRunning", "Stopped", "FailedStopping"}
IndexerType == {"Webhook"}

\* indexers   : the indexers table, id -> row
\* startQueue : START_INDEXER_QUEUE, id -> number of messages bearing the id
\* failQueue  : FAILED_INDEXER_QUEUE, id -> number of messages bearing the id
\* procs      : the OS process table, process id -> [id, alive, reported]
\* workers    : the execution contexts (HTTP handlers, queue consumers)
\* known      : the ids a create response has returned to a client
\* ops        : number of requests and messages taken up so far, up to MaxOps
\* created    : the type and target submitted with each create request
\* call       : the last call made directly on the repository or the router,
\*              with its arguments and its result
VARIABLES indexers, startQueue, failQueue, procs, workers, known, ops, created, call

vars == <<indexers, startQueue, failQueue, procs, workers, known, ops, created, call>>

(* ------------------- row <-> model conversions ------------------------- *)
\* strum FromStr on the stored text: a member of the enumeration or an error
FromStr(enum, s) ==
    IF s \in enum THEN [ok |-> TRUE, val |-> s]
    ELSE [ok |-> FALSE, err |-> "VariantNotFound"]

\* variant: the status is not read from the row but defaulted to `st`
TryFromIndexerDb_Default(id, value, st) ==
    LET ty == FromStr(IndexerType, value.indexer_type)
    IN  IF ~ty.ok THEN [ok |-> FALSE, err |-> ty.err]
        ELSE [ok |-> TRUE,
              model |-> [id |-> id,
                         status |-> st,
                         process_id |-> value.process_id,
                         indexer_type |-> ty.val,
                         target_url |-> value.target_url]]

TryFromIndexerDb_DefaultCreated(id, value) == TryFromIndexerDb_Default(id, value, "Created")

TryFromIndexerDb_DefaultRunning(id, value) == TryFromIndexerDb_Default(id, value, "Running")

\* TryFrom<IndexerDb> for IndexerModel
TryFromIndexerDb(id, value) ==
    LET st == FromStr(IndexerStatus, value.status)
        ty == FromStr(IndexerType, value.indexer_type)
    IN  IF ~st.ok THEN [ok |-> FALSE, err |-> st.err]
        ELSE IF ~ty.ok THEN [ok |-> FALSE, err |-> ty.err]
        ELSE [ok |-> TRUE,
              model |-> [id |-> id,
                         status |-> st.val,
                         process_id |-> value.process_id,
                         indexer_type |-> ty.val,
                         target_url |-> value.target_url]]

\* TryFrom<NewIndexerDb> for IndexerModel : the row with process_id None
TryFromNewIndexerDb(value) ==
    TryFromIndexerDb(value.id,
                     [status |-> value.status,
                      indexer_type |-> value.indexer_type,
                      target_url |-> value.target_url,
                      process_id |-> NoPid])

\* .map_err(InfraError::ParseError) : the repository's wrapping of a failed conversion
MapErrParseError(r) ==
    IF r.ok THEN r ELSE [ok |-> FALSE, err |-> "ParseError"]

(* --------------------------- error kinds ------------------------------- *)
\* variant: every diesel error becomes the generic kind
FromDieselError_AllInternal(value) == "InternalServerError"

\* impl From<Error> for InfraError : diesel's NotFound (a query that should
\* return one row found none) keeps its own kind, every other error is generic
FromDieselError(value) ==
    IF value = "NotFound" THEN "NotFound" ELSE "InternalServerError"

\* impl From<PoolError> for InfraError
FromPoolError(value) == "PoolError"

(* ------------------------- repository ---------------------------------- *)
\* variant: the inserted row carries a process id from the start
NewRow_WithPid(new_indexer) ==
    [status |-> new_indexer.status,
     indexer_type |-> new_indexer.indexer_type,
     process_id |-> Some(0),
     target_url |-> new_indexer.target_url]

\* the row written by insert_into(indexers).values(new_indexer)
NewRow(new_indexer) ==
    [status |-> new_indexer.status,
     indexer_type |-> new_indexer.indexer_type,
     process_id |-> NoPid,
     target_url |-> new_indexer.target_url]

\* variant: the insert answers with the model but the row is not stored
Insert_NotStored(tbl, new_indexer) ==
    [tbl |-> tbl,
     res |-> MapErrParseError(TryFromIndexerDb(new_indexer.id, NewRow(new_indexer)))]

\* _insert
Insert(tbl, new_indexer) ==
    LET row == NewRow(new_indexer)
    IN  [tbl |-> [i \in (DOMAIN tbl) \cup {new_indexer.id} |->
                     IF i = new_indexer.id THEN row ELSE tbl[i]],
         res |-> MapErrParseError(TryFromIndexerDb(new_indexer.id, row))]

\* get
Get(tbl, id) ==
    IF id \notin DOMAIN tbl THEN [ok |-> FALSE, err |-> FromDieselError("NotFound")]
    ELSE MapErrParseError(TryFromIndexerDb(id, tbl[id]))

\* the rows the boxed query of get_all selects: those whose status column
\* equals filter.status when it is Some, every row when it is None
Selected(tbl, filter) ==
    IF filter.status # None
    THEN {i \in DOMAIN tbl : tbl[i].status = filter.status}
    ELSE DOMAIN tbl

\* .map(try_into).collect::<Result<Vec<_>, ParseError>>().map_err(ParseError)? :
\* every loaded row is converted, and one failed conversion fails the call
Collect(tbl, res) ==
    IF \A i \in res : TryFromIndexerDb(i, tbl[i]).ok
    THEN [ok |-> TRUE, models |-> {TryFromIndexerDb(i, tbl[i]).model : i \in res}]
    ELSE [ok |-> FALSE, err |-> "ParseError"]

\* variant: the filter is not applied to the query
GetAll_Unfiltered(tbl, filter) == Collect(tbl, DOMAIN tbl)

\* get_all
GetAll(tbl, filter) == Collect(tbl, Selected(tbl, filter))

\* variant: the update also resets process_id
UpdateStatus_ClearsPid(tbl, indexer) ==
    IF indexer.id \notin DOMAIN tbl
    THEN [tbl |-> tbl, res |-> [ok |-> FALSE, err |-> FromDieselError("NotFound")]]
    ELSE LET row == [tbl[indexer.id] EXCEPT !.status = indexer.status,
                                            !.process_id = NoPid]
         IN  [tbl |-> [tbl EXCEPT ![indexer.id] = row],
              res |-> MapErrParseError(TryFromIndexerDb(indexer.id, row))]

\* variant: the update matches the row but writes nothing
UpdateStatus_NoWrite(tbl, indexer) ==
    IF indexer.id \notin DOMAIN tbl
    THEN [tbl |-> tbl, res |-> [ok |-> FALSE, err |-> FromDieselError("NotFound")]]
    ELSE [tbl |-> tbl, res |-> MapErrParseError(TryFromIndexerDb(indexer.id, tbl[indexer.id]))]

\* variant: the status text is written into the target_url column
UpdateStatus_WrongColumn(tbl, indexer) ==
    IF indexer.id \notin DOMAIN tbl
    THEN [tbl |-> tbl, res |-> [ok |-> FALSE, err |-> FromDieselError("NotFound")]]
    ELSE LET row == [tbl[indexer.id] EXCEPT !.target_url = indexer.status]
         IN  [tbl |-> [tbl EXCEPT ![indexer.id] = row],
              res |-> MapErrParseError(TryFromIndexerDb(indexer.id, row))]

\* update_status : UPDATE indexers SET status = .. WHERE id = ..
UpdateStatus(tbl, indexer) ==
    IF indexer.id \notin DOMAIN tbl
    THEN [tbl |-> tbl, res |-> [ok |-> FALSE, err |-> FromDieselError("NotFound")]]
    ELSE LET row == [tbl[indexer.id] EXCEPT !.status = indexer.status]
         IN  [tbl |-> [tbl EXCEPT ![indexer.id] = row],
              res |-> MapErrParseError(TryFromIndexerDb(indexer.id, row))]

\* variant: only the status column is set
UpdateStatusAndProcessId_StatusOnly(tbl, indexer) ==
    IF indexer.id \notin DOMAIN tbl
    THEN [tbl |-> tbl, res |-> [ok |-> FALSE, err |-> FromDieselError("NotFound")]]
    ELSE LET row == [tbl[indexer.id] EXCEPT !.status = indexer.status]
         IN  [tbl |-> [tbl EXCEPT ![indexer.id] = row],
              res |-> MapErrParseError(TryFromIndexerDb(indexer.id, row))]

\* variant: the update is not restricted to the row with the given id
UpdateStatusAndProcessId_AllRows(tbl, indexer) ==
    IF indexer.id \notin DOMAIN tbl
    THEN [tbl |-> tbl, res |-> [ok |-> FALSE, err |-> FromDieselError("NotFound")]]
    ELSE LET upd == [i \in DOMAIN tbl |->
                        [tbl[i] EXCEPT !.status = indexer.status,
                                       !.process_id = Some(indexer.process_id)]]
         IN  [tbl |-> upd,
              res |-> MapErrParseError(TryFromIndexerDb(indexer.id, upd[indexer.id]))]

\* update_status_and_process_id : UPDATE .. SET status = .., process_id = .. WHERE id = ..
UpdateStatusAndProcessId(tbl, indexer) ==
    IF indexer.id \notin DOMAIN tbl
    THEN [tbl |-> tbl, res |-> [ok |-> FALSE, err |-> FromDieselError("NotFound")]]
    ELSE LET row == [tbl[indexer.id] EXCEPT !.status = indexer.status,
                                            !.process_id = Some(indexer.process_id)]
         IN  [tbl |-> [tbl EXCEPT ![indexer.id] = row],
              res |-> MapErrParseError(TryFromIndexerDb(indexer.id, row))]

(* ----------------------- handler / process table ----------------------- *)
\* get_indexer_handler
GetIndexerHandler(indexer_type) ==
    IF indexer_type = "Webhook" THEN "WebhookIndexer" ELSE "unimplemented"

\* Indexer::is_running : the process with the recorded process_id is alive
IsRunning(model) ==
    /\ model.process_id # NoPid
    /\ model.process_id[1] \in DOMAIN procs
    /\ procs[model.process_id[1]].alive

NextPid == Cardinality(DOMAIN procs) + 1

\* the processes spawned for an indexer
Spawned(id) == {p \in DOMAIN procs : procs[p].id = id}

\* the record an operation has loaded, if any
NoModel == <<>>
Loaded(model) == <<model>>

\* no call has been made on the repository or the router yet
NoCall == [fn |-> "none", id |-> BogusId, arg |-> <<>>, res |-> None,
           model |-> NoModel, models |-> {}, handler |-> None]

Idle == [pc |-> "idle", op |-> "none", id |-> BogusId,
         model |-> NoModel, hres |-> None, pid |-> 0, res |-> None]

Init ==
    /\ indexers = [i \in {} |-> None]
    /\ startQueue = [i \in Ids |-> 0]
    /\ failQueue = [i \in Ids |-> 0]
    /\ procs = [p \in {} |-> None]
    /\ workers = [w \in Workers |-> Idle]
    /\ known = {}
    /\ ops = 0
    /\ created = [i \in {} |-> None]
    /\ call = NoCall

(* ----------------------------- helpers --------------------------------- *)
\* the execution context is ready for its next request or message; once MaxOps
\* of them have been taken up no further client request is made, while the
\* consumers go on with what their queues hold
FreeWorker(w) ==
    /\ w = "http" => ops < MaxOps
    /\ workers[w].pc = "idle"

\* one more request or message has been taken up
Counted == IF ops < MaxOps THEN ops + 1 ELSE ops

\* Uuid::new_v4 : an identifier no row carries yet
FreshId(id) ==
    /\ id \in Ids
    /\ id \notin DOMAIN indexers
    /\ \A j \in Ids : j < id => j \in DOMAIN indexers

\* queue send
Send(q, id) == [q EXCEPT ![id] = @ + 1]

\* queue delete (acknowledge) of one message bearing the id
Delete(q, id) == [q EXCEPT ![id] = IF @ > 0 THEN @ - 1 ELSE 0]

Done(w, r) ==
    [Idle EXCEPT !.pc = "done", !.op = workers[w].op, !.id = workers[w].id, !.res = r]

(* ------------------------------ create --------------------------------- *)
\* create: the row is inserted with status Created and type Webhook
CreateIndexer(w, url) ==
    /\ w = "http"
    /\ FreeWorker(w)
    /\ \E id \in Ids :
         /\ FreshId(id)
         /\ url = UrlOf(id)
         /\ LET new_indexer == [id |-> id, status |-> "Created",
                                indexer_type |-> "Webhook", target_url |-> url]
                r == Insert(indexers, new_indexer)
            IN  /\ indexers' = r.tbl
                /\ created' = [i \in (DOMAIN created) \cup {id} |->
                                  IF i = id
                                  THEN [indexer_type |-> "Webhook", target_url |-> url]
                                  ELSE created[i]]
                /\ workers' = [workers EXCEPT ![w] =
                                  [Idle EXCEPT !.pc = "send", !.op = "create", !.id = id,
                                               !.model = IF r.res.ok THEN Loaded(r.res.model) ELSE NoModel]]
    /\ UNCHANGED <<call, startQueue, failQueue, procs, known>>
    /\ ops' = Counted

\* create: the start message bearing the new id is sent; the id is returned
CreateSend(w) ==
    /\ workers[w].pc = "send"
    /\ startQueue' = Send(startQueue, workers[w].id)
    /\ workers' = [workers EXCEPT ![w] = Done(w, "Ok")]
    /\ known' = known \cup {workers[w].id}
    /\ UNCHANGED <<call, ops, indexers, failQueue, procs, created>>

\* create: the send fails; the inserted row is kept
CreateSendFails(w) ==
    /\ workers[w].pc = "send"
    /\ workers' = [workers EXCEPT ![w] = [Done(w, "Ok") EXCEPT !.hres = "QueueError"]]
    /\ known' = known \cup {workers[w].id}
    /\ UNCHANGED <<call, ops, indexers, startQueue, failQueue, procs, created>>

(* ------------------------------- start --------------------------------- *)
\* start, first half: load the record and validate the precondition
StartLoad(w, id) ==
    LET g == Get(indexers, id)
        ctx == [Idle EXCEPT !.op = "start", !.id = id]
    IN  workers' = [workers EXCEPT ![w] =
            IF ~g.ok
            THEN [ctx EXCEPT !.pc = "done", !.res = g.err]
            ELSE IF g.model.status # "Created"
            THEN [ctx EXCEPT !.pc = "done", !.res = "PreconditionFailed"]
            ELSE [ctx EXCEPT !.pc = "spawn", !.model = Loaded(g.model)]]

\* POST /v1/indexers/start/{id}
StartRequest(w, id) ==
    /\ w = "http"
    /\ FreeWorker(w)
    /\ id \in known \cup {BogusId}
    /\ StartLoad(w, id)
    /\ UNCHANGED <<call, indexers, startQueue, failQueue, procs, known, created>>
    /\ ops' = Counted

\* the start-queue consumer receives a message (it stays on the queue until deleted)
StartReceive(w, id) ==
    /\ w = "start_consumer"
    /\ FreeWorker(w)
    /\ startQueue[id] > 0
    /\ StartLoad(w, id)
    /\ UNCHANGED <<call, indexers, startQueue, failQueue, procs, known, created>>
    /\ ops' = Counted

\* handler.start returns the identifier of the spawned process
StartSpawn(w) ==
    /\ workers[w].pc = "spawn"
    /\ GetIndexerHandler(workers[w].model[1].indexer_type) = "WebhookIndexer"
    /\ procs' = [p \in (DOMAIN procs) \cup {NextPid} |->
                    IF p = NextPid THEN [id |-> workers[w].id, alive |-> TRUE, reported |-> FALSE]
                    ELSE procs[p]]
    /\ workers' = [workers EXCEPT ![w] = [@ EXCEPT !.pc = "persist", !.hres = "Spawned",
                                                   !.pid = NextPid]]
    /\ UNCHANGED <<call, ops, indexers, startQueue, failQueue, known, created>>

\* handler.start fails to launch: no identifier comes back
StartSpawnFails(w) ==
    /\ workers[w].pc = "spawn"
    /\ GetIndexerHandler(workers[w].model[1].indexer_type) = "WebhookIndexer"
    /\ workers' = [workers EXCEPT ![w] = [@ EXCEPT !.pc = "persist", !.hres = "SpawnFailed"]]
    /\ UNCHANGED <<call, ops, indexers, startQueue, failQueue, procs, known, created>>

\* start, last half: persist Running with the process id, or the failed-start status
StartPersist(w) ==
    /\ workers[w].pc = "persist"
    /\ workers[w].op = "start"
    /\ IF workers[w].hres = "SpawnFailed"
       THEN LET r == UpdateStatus(indexers,
                        [id |-> workers[w].id, status |-> "FailedRunning"])
            IN  /\ indexers' = r.tbl
                /\ workers' = [workers EXCEPT ![w] = Done(w, "ProcessSpawnFailed")]
       ELSE LET r == UpdateStatusAndProcessId(indexers,
                        [id |-> workers[w].id, status |-> "Running",
                         process_id |-> workers[w].pid])
            IN  /\ indexers' = r.tbl
                /\ workers' = [workers EXCEPT ![w] =
                                  Done(w, IF r.res.ok THEN "Ok" ELSE r.res.err)]
    /\ UNCHANGED <<call, ops, startQueue, failQueue, procs, known, created>>

(* -------------------------------- stop --------------------------------- *)
\* POST /v1/indexers/stop/{id}: load the record and validate the precondition
StopRequest(w, id) ==
    /\ w = "http"
    /\ FreeWorker(w)
    /\ id \in known \cup {BogusId}
    /\ LET g == Get(indexers, id)
           ctx == [Idle EXCEPT !.op = "stop", !.id = id]
       IN  workers' = [workers EXCEPT ![w] =
               IF ~g.ok
               THEN [ctx EXCEPT !.pc = "done", !.res = g.err]
               ELSE IF g.model.status # "Running"
               THEN [ctx EXCEPT !.pc = "done", !.res = "PreconditionFailed"]
               ELSE [ctx EXCEPT !.pc = "handler", !.model = Loaded(g.model)]]
    /\ UNCHANGED <<call, indexers, startQueue, failQueue, procs, known, created>>
    /\ ops' = Counted

\* handler.stop terminates the process of the loaded record
StopHandler(w) ==
    /\ workers[w].pc = "handler"
    /\ IsRunning(workers[w].model[1])
    /\ procs' = [procs EXCEPT ![workers[w].model[1].process_id[1]].alive = FALSE]
    /\ workers' = [workers EXCEPT ![w] = [@ EXCEPT !.pc = "persist", !.hres = "Ok"]]
    /\ UNCHANGED <<call, ops, indexers, startQueue, failQueue, known, created>>

\* handler.stop reports failure: process not found, or not terminated in time
StopHandlerFails(w) ==
    /\ workers[w].pc = "handler"
    /\ workers' = [workers EXCEPT ![w] = [@ EXCEPT !.pc = "persist", !.hres = "StopFailed"]]
    /\ UNCHANGED <<call, ops, indexers, startQueue, failQueue, procs, known, created>>

\* stop, last half: persist Stopped, or FailedStopping when the handler failed;
\* the request is answered 200 in both cases
StopPersist(w) ==
    /\ workers[w].pc = "persist"
    /\ workers[w].op = "stop"
    /\ LET new_status == IF workers[w].hres = "Ok" THEN "Stopped" ELSE "FailedStopping"
           r == UpdateStatus(indexers, [id |-> workers[w].id, status |-> new_status])
       IN  /\ indexers' = r.tbl
           /\ workers' = [workers EXCEPT ![w] =
                             Done(w, IF r.res.ok THEN "Ok" ELSE r.res.err)]
    /\ UNCHANGED <<call, ops, startQueue, failQueue, procs, known, created>>

(* -------------------------------- fail --------------------------------- *)
\* the failure-queue consumer receives a message; fail loads and validates
FailReceive(w, id) ==
    /\ w = "fail_consumer"
    /\ FreeWorker(w)
    /\ failQueue[id] > 0
    /\ LET g == Get(indexers, id)
           ctx == [Idle EXCEPT !.op = "fail", !.id = id]
       IN  workers' = [workers EXCEPT ![w] =
               IF ~g.ok
               THEN [ctx EXCEPT !.pc = "done", !.res = g.err]
               ELSE IF g.model.status # "Running"
               THEN [ctx EXCEPT !.pc = "done", !.res = "PreconditionFailed"]
               ELSE [ctx EXCEPT !.pc = "persist", !.model = Loaded(g.model)]]
    /\ UNCHANGED <<call, indexers, startQueue, failQueue, procs, known, created>>
    /\ ops' = Counted

\* fail, last half: persist FailedRunning (no handler call)
FailPersist(w) ==
    /\ workers[w].pc = "persist"
    /\ workers[w].op = "fail"
    /\ LET r == UpdateStatus(indexers, [id |-> workers[w].id, status |-> "FailedRunning"])
       IN  /\ indexers' = r.tbl
           /\ workers' = [workers EXCEPT ![w] =
                             Done(w, IF r.res.ok THEN "Ok" ELSE r.res.err)]
    /\ UNCHANGED <<call, ops, startQueue, failQueue, procs, known, created>>

(* ------------------- completion / acknowledgement ---------------------- *)
\* the HTTP response is sent
Respond(w) ==
    /\ w = "http"
    /\ workers[w].pc = "done"
    /\ workers' = [workers EXCEPT ![w] = Idle]
    /\ UNCHANGED <<call, ops, indexers, startQueue, failQueue, procs, known, created>>

\* the consumer acknowledges (deletes) the message it processed
Acknowledge(w) ==
    /\ w # "http"
    /\ workers[w].pc = "done"
    /\ IF workers[w].op = "start"
       THEN startQueue' = Delete(startQueue, workers[w].id) /\ UNCHANGED failQueue
       ELSE failQueue' = Delete(failQueue, workers[w].id) /\ UNCHANGED startQueue
    /\ workers' = [workers EXCEPT ![w] = Idle]
    /\ UNCHANGED <<call, ops, indexers, procs, known, created>>

\* a failed start leaves the message to the queue's redelivery policy
LeaveForRedelivery(w) ==
    /\ w = "start_consumer"
    /\ workers[w].pc = "done"
    /\ workers[w].res = "ProcessSpawnFailed"
    /\ workers' = [workers EXCEPT ![w] = Idle]
    /\ UNCHANGED <<call, ops, indexers, startQueue, failQueue, procs, known, created>>

(* ------------------------ processes and monitor ------------------------ *)
\* an indexer process exits on its own
ProcessDies(p) ==
    /\ p \in DOMAIN procs
    /\ procs[p].alive
    /\ procs' = [procs EXCEPT ![p].alive = FALSE]
    /\ UNCHANGED <<call, ops, indexers, startQueue, failQueue, workers, known, created>>

\* liveness monitor: a Running indexer whose process is gone is reported once
Monitor(id) ==
    /\ GetAll(indexers, [status |-> "Running"]).ok
    /\ id \in {m.id : m \in GetAll(indexers, [status |-> "Running"]).models}
    /\ Get(indexers, id).ok
    /\ LET model == Get(indexers, id).model
       IN  /\ ~IsRunning(model)
           /\ model.process_id # NoPid
           /\ ~procs[model.process_id[1]].reported
           /\ procs' = [procs EXCEPT ![model.process_id[1]].reported = TRUE]
    /\ failQueue' = Send(failQueue, id)
    /\ UNCHANGED <<call, ops, indexers, startQueue, workers, known, created>>

Next ==
    \/ \E w \in Workers, url \in Urls : CreateIndexer(w, url)
    \/ \E w \in Workers : CreateSend(w)
    \/ \E w \in Workers : CreateSendFails(w)
    \/ \E w \in Workers, id \in Ids \cup {BogusId} : StartRequest(w, id)
    \/ \E w \in Workers, id \in Ids : StartReceive(w, id)
    \/ \E w \in Workers : StartSpawn(w)
    \/ \E w \in Workers : StartSpawnFails(w)
    \/ \E w \in Workers : StartPersist(w)
    \/ \E w \in Workers, id \in Ids \cup {BogusId} : StopRequest(w, id)
    \/ \E w \in Workers : StopHandler(w)
    \/ \E w \in Workers : StopHandlerFails(w)
    \/ \E w \in Workers : StopPersist(w)
    \/ \E w \in Workers, id \in Ids : FailReceive(w, id)
    \/ \E w \in Workers : FailPersist(w)
    \/ \E w \in Workers : Respond(w)
    \/ \E w \in Workers : Acknowledge(w)
    \/ \E w \in Workers : LeaveForRedelivery(w)
    \/ \E p \in DOMAIN procs : ProcessDies(p)
    \/ \E id \in Ids : Monitor(id)

Spec == Init /\ [][Next]_vars

\* the steps an execution context takes on its own once they are possible: a
\* request being served goes on, a consumer polls its queue
Scheduled(w) ==
    \/ CreateSend(w) \/ CreateSendFails(w)
    \/ StartSpawn(w) \/ StartSpawnFails(w) \/ StartPersist(w)
    \/ StopHandler(w) \/ StopHandlerFails(w) \/ StopPersist(w)
    \/ FailPersist(w)
    \/ Respond(w) \/ Acknowledge(w) \/ LeaveForRedelivery(w)
    \/ \E id \in Ids : StartReceive(w, id)
    \/ \E id \in Ids : FailReceive(w, id)

\* the monitor's probe of the Running indexers
Probe == \E id \in Ids : Monitor(id)

\* the same program under a fair scheduler of the execution contexts and the
\* monitor (client requests and process deaths stay free to happen or not)
FairSpec ==
    /\ Init
    /\ [][Next]_vars
    /\ \A w \in Workers : WF_vars(Scheduled(w))
    /\ WF_vars(Probe)

TypeOK ==
    /\ DOMAIN indexers \subseteq Ids
    /\ \A i \in DOMAIN indexers : indexers[i].status \in IndexerStatus

(* --------------- the repository and the router, called directly -------- *)
\* the process id of the conversion tests
TestPid == 1234

\* the texts a stored row can carry: the enumerations and the tests' invalid ones
StoredStatus == IndexerStatus \cup {"InvalidStatus"}

StoredType == IndexerType \cup {"InvalidType"}

Methods == {"GET", "POST"}

\* the words a request path is made of
Segments == {"v1", "posts", "indexers", "start", "stop", "health"} \cup {ToString(i) : i \in Ids}

\* the longest path tried with arbitrary segments
MaxPrefix == 2

\* request paths, as their segments: every short path and the ones the tests request
Paths ==
    UNION {[1..n -> Segments] : n \in 0..MaxPrefix}
    \cup {<<"v1", "posts", ToString(i)>> : i \in Ids}
    \cup {<<"v1", "indexers", "start", ToString(i)>> : i \in Ids}
    \cup {<<"v1", "indexers", "stop", ToString(i)>> : i \in Ids}

\* indexers_routes : Router::new().route("/", post(create_indexer))
IndexersRoutes(method, rest) ==
    IF rest = <<>>
    THEN IF method = "POST" THEN "create_indexer" ELSE "method_not_allowed"
    ELSE "handler_404"

\* posts_routes
PostsRoutes(method, rest) ==
    IF rest = <<>>
    THEN IF method = "POST" THEN "create_post"
         ELSE IF method = "GET" THEN "list_posts" ELSE "method_not_allowed"
    ELSE IF Len(rest) = 1
    THEN IF method = "GET" THEN "get_post" ELSE "method_not_allowed"
    ELSE "handler_404"

\* app_router : the handler a request is dispatched to
AppRouter(method, path) ==
    IF path = <<>>
    THEN IF method = "GET" THEN "root" ELSE "method_not_allowed"
    ELSE IF Len(path) >= 2 /\ path[1] = "v1" /\ path[2] = "posts"
    THEN PostsRoutes(method, SubSeq(path, 3, Len(path)))
    ELSE IF Len(path) >= 2 /\ path[1] = "v1" /\ path[2] = "indexers"
    THEN IndexersRoutes(method, SubSeq(path, 3, Len(path)))
    ELSE "handler_404"

\* the status line of the response, for the handlers that fix it themselves
StatusCode(handler) ==
    IF handler = "handler_404" THEN "404"
    ELSE IF handler = "method_not_allowed" THEN "405"
    ELSE "by handler"

\* the record of a repository call and its Result
Called(fn, id, arg, r) ==
    [fn |-> fn, id |-> id, arg |-> arg,
     res |-> IF r.ok THEN "Ok" ELSE r.err,
     model |-> IF r.ok THEN Loaded(r.model) ELSE NoModel,
     models |-> {},
     handler |-> None]

CallInsert(id, status, type) ==
    /\ FreshId(id)
    /\ LET r == Insert(indexers, [id |-> id, status |-> status,
                                  indexer_type |-> type, target_url |-> UrlOf(id)])
       IN  /\ indexers' = r.tbl
           /\ call' = Called("insert", id, <<status, type>>, r.res)
    /\ UNCHANGED <<startQueue, failQueue, procs, workers, known, ops, created>>

CallGet(id) ==
    /\ call' = Called("get", id, <<>>, Get(indexers, id))
    /\ UNCHANGED <<indexers, startQueue, failQueue, procs, workers, known, ops, created>>

CallUpdateStatus(id, status) ==
    /\ LET r == UpdateStatus(indexers, [id |-> id, status |-> status])
       IN  /\ indexers' = r.tbl
           /\ call' = Called("update_status", id, <<status>>, r.res)
    /\ UNCHANGED <<startQueue, failQueue, procs, workers, known, ops, created>>

CallUpdateStatusAndProcessId(id, status, pid) ==
    /\ LET r == UpdateStatusAndProcessId(indexers,
                    [id |-> id, status |-> status, process_id |-> pid])
       IN  /\ indexers' = r.tbl
           /\ call' = Called("update_status_and_process_id", id, <<status, pid>>, r.res)
    /\ UNCHANGED <<startQueue, failQueue, procs, workers, known, ops, created>>

\* the repository functions that look one row up by its id
ById == {"get", "update_status", "update_status_and_process_id"}

\* what can go wrong before the row is looked up: no connection from the pool
\* (pool.get().await?), or the database rejecting the query
Failures == {"pool", "database"}

\* a by-id call fails for a reason that has nothing to do with the id
CallFails(fn, id, failure) ==
    /\ call' = Called(fn, id, <<failure>>,
                      [ok |-> FALSE,
                       err |-> IF failure = "pool" THEN FromPoolError("Timeout")
                               ELSE FromDieselError("DatabaseError")])
    /\ UNCHANGED <<indexers, startQueue, failQueue, procs, workers, known, ops, created>>

\* the values of IndexerFilter.status : no filter, or any text
Filters == {None} \cup StoredStatus

CallGetAll(filter) ==
    /\ LET r == GetAll(indexers, filter)
       IN  call' = [NoCall EXCEPT !.fn = "get_all", !.arg = <<filter.status>>,
                                  !.res = IF r.ok THEN "Ok" ELSE r.err,
                                  !.models = IF r.ok THEN r.models ELSE {}]
    /\ UNCHANGED <<indexers, startQueue, failQueue, procs, workers, known, ops, created>>

\* a variant of IndexerType other than Webhook: what the `_` arm matches
OtherVariant == "Other"

\* start, stop and the probe resolve the handler of the indexer they serve
CallGetIndexerHandler(indexer_type) ==
    /\ call' = [NoCall EXCEPT !.fn = "get_indexer_handler", !.arg = <<indexer_type>>,
                              !.handler = GetIndexerHandler(indexer_type)]
    /\ UNCHANGED <<indexers, startQueue, failQueue, procs, workers, known, ops, created>>

\* a request arrives at the router
CallAppRouter(method, path) ==
    /\ call' = [NoCall EXCEPT !.fn = "app_router", !.arg = <<method, path>>,
                              !.handler = AppRouter(method, path)]
    /\ UNCHANGED <<indexers, startQueue, failQueue, procs, workers, known, ops, created>>

RepositoryNext ==
    \/ \E id \in Ids, status \in StoredStatus, type \in StoredType : CallInsert(id, status, type)
    \/ \E id \in Ids \cup {BogusId} : CallGet(id)
    \/ \E id \in Ids \cup {BogusId}, status \in IndexerStatus : CallUpdateStatus(id, status)
    \/ \E id \in Ids \cup {BogusId}, status \in IndexerStatus :
           CallUpdateStatusAndProcessId(id, status, TestPid)
    \/ \E fn \in ById, failure \in Failures : CallFails(fn, BogusId, failure)
    \/ \E status \in Filters : CallGetAll([status |-> status])

\* the repository functions under every sequence of direct calls
RepositorySpec == Init /\ [][RepositoryNext]_vars

RouterNext ==
    \/ \E method \in Methods, path \in Paths : CallAppRouter(method, path)
    \/ \E indexer_type \in IndexerType \cup {OtherVariant} : CallGetIndexerHandler(indexer_type)

\* the router under every request, and the handler registry under every type
RouterSpec == Init /\ [][RouterNext]_vars


(* ======================= properties of the lifecycle ==================== *)
Row(i) == indexers[i]

\* worker w takes up operation `op` in this step
Begins(w, op) ==
    /\ workers[w].pc = "idle"
    /\ workers'[w].pc # "idle"
    /\ workers'[w].op = op

\* worker w performs the final repository write of operation `op` in this step
Persists(w, op) ==
    /\ workers[w].pc = "persist"
    /\ workers[w].op = op
    /\ workers'[w].pc = "done"

C2_StopFailRaceHasOneWinner ==
    ~ ( /\ workers["http"].pc = "done"
        /\ workers["http"].op = "stop"
        /\ workers["http"].res = "Ok"
        /\ workers["fail_consumer"].pc = "done"
        /\ workers["fail_consumer"].op = "fail"
        /\ workers["fail_consumer"].res = "Ok"
        /\ workers["fail_consumer"].id = workers["http"].id )

(* ---- C3 ---- *)
\* C3: a start taken up on an indexer whose status is not Created ends at once
\* with PreconditionFailed, spawns no process and leaves the table unchanged.
C3_StartOnlyFromCreated ==
    [][\A w \in Workers :
         ( /\ Begins(w, "start")
           /\ workers'[w].id \in DOMAIN indexers
           /\ Row(workers'[w].id).status # "Created" )
         => /\ workers'[w].pc = "done"
            /\ workers'[w].res = "PreconditionFailed"
            /\ indexers' = indexers
            /\ procs' = procs]_vars

C3_Witness ==
    \E w \in Workers :
        /\ workers[w].pc = "done"
        /\ workers[w].op = "start"
        /\ workers[w].res = "PreconditionFailed"
        /\ workers[w].id \in DOMAIN indexers
        /\ Row(workers[w].id).status = "Running"

(* ---- C4 ---- *)
\* C4: a stop taken up on an indexer whose status is not Running ends at once
\* with PreconditionFailed, never reaches the handler call and leaves the
\* table and the processes unchanged.
C4_StopOnlyFromRunning ==
    [][\A w \in Workers :
         ( /\ Begins(w, "stop")
           /\ workers'[w].id \in DOMAIN indexers
           /\ Row(workers'[w].id).status # "Running" )
         => /\ workers'[w].pc = "done"
            /\ workers'[w].res = "PreconditionFailed"
            /\ indexers' = indexers
            /\ procs' = procs]_vars

C4_Witness ==
    \E w \in Workers :
        /\ workers[w].pc = "done"
        /\ workers[w].op = "stop"
        /\ workers[w].res = "PreconditionFailed"
        /\ workers[w].id \in DOMAIN indexers
        /\ Row(workers[w].id).status = "Created"

(* ---- C5 ---- *)
Edges ==
    { <<"Created", "Running">>, <<"Created", "FailedRunning">>,
      <<"Running", "Stopped">>, <<"Running", "FailedRunning">>,
      <<"Running", "FailedStopping">> }

\* C5: every change of an indexer's status follows one of the edges
\* Created->Running, Created->FailedRunning, Running->Stopped,
\* Running->FailedRunning, Running->FailedStopping.
C5_OnlyLifecycleEdges ==
    [][\A i \in DOMAIN indexers :
         Row(i).status # indexers'[i].status
            => <<Row(i).status, indexers'[i].status>> \in Edges]_vars

(* ---- C6 ---- *)
\* C6: the write of a fail sets the status to FailedRunning, leaves the
\* process_id it finds (which is populated) and touches no process.
C6_FailKeepsProcessId ==
    [][\A w \in Workers :
         Persists(w, "fail")
         => LET i == workers[w].id
            IN  /\ indexers'[i].status = "FailedRunning"
                /\ indexers'[i].process_id = Row(i).process_id
                /\ indexers'[i].process_id # NoPid
                /\ procs' = procs]_vars

C6_Witness ==
    \E w \in Workers :
        /\ workers[w].pc = "done"
        /\ workers[w].op = "fail"
        /\ workers[w].res = "Ok"
        /\ Row(workers[w].id).status = "FailedRunning"
        /\ Row(workers[w].id).process_id # NoPid

(* ---- C7 ---- *)
\* C7: when the handler's stop failed, the write of the stop sets the status
\* to FailedStopping and leaves the (populated) process_id unchanged.
C7_FailedStopKeepsProcessId ==
    [][\A w \in Workers :
         (Persists(w, "stop") /\ workers[w].hres = "StopFailed")
         => LET i == workers[w].id
            IN  /\ indexers'[i].status = "FailedStopping"
                /\ indexers'[i].process_id = Row(i).process_id
                /\ indexers'[i].process_id # NoPid
                /\ indexers'[i].status \notin {"Stopped", "Running"}]_vars

C7_Witness ==
    \E w \in Workers :
        /\ workers[w].pc = "done"
        /\ workers[w].op = "stop"
        /\ workers[w].res = "Ok"
        /\ Row(workers[w].id).status = "FailedStopping"
        /\ Row(workers[w].id).process_id # NoPid

C9_CreateInsertsAndEnqueues ==
    [][\A w \in Workers :
         /\ Begins(w, "create")
            => LET i == workers'[w].id
               IN  /\ i \notin DOMAIN indexers
                   /\ i \in DOMAIN indexers'
                   /\ \A j \in DOMAIN indexers : indexers'[j] = indexers[j]
         /\ ( /\ workers[w].pc = "send"
              /\ workers'[w].pc = "done"
              /\ workers'[w].hres # "QueueError" )
            => LET i == workers[w].id
               IN  /\ indexers'[i] = [status |-> "Created",
                                      indexer_type |-> "Webhook",
                                      process_id |-> NoPid,
                                      target_url |-> created[i].target_url]
                   /\ startQueue'[i] = 1
                   /\ \A j \in Ids \ {i} : startQueue'[j] = startQueue[j]
                   /\ workers'[w].res = "Ok"]_vars

C9_Witness ==
    \E w \in Workers :
        /\ workers[w].pc = "done"
        /\ workers[w].op = "create"
        /\ workers[w].hres # "QueueError"
        /\ startQueue[workers[w].id] = 1
        /\ Row(workers[w].id).status = "Created"
        /\ Row(workers[w].id).target_url = "u2"

(* ---- C10 ---- *)
\* C10: the write of a successful start sets Running and the write of a
\* successful stop sets Stopped; after either the row still carries the
\* indexer_type and target_url submitted at creation, under the same id.
C10_RoundTripKeepsIdentity ==
    [][\A w \in Workers :
         /\ (Persists(w, "start") /\ workers[w].hres = "Spawned")
            => LET i == workers[w].id
               IN  /\ indexers'[i].status = "Running"
                   /\ indexers'[i].indexer_type = created[i].indexer_type
                   /\ indexers'[i].target_url = created[i].target_url
         /\ (Persists(w, "stop") /\ workers[w].hres = "Ok")
            => LET i == workers[w].id
               IN  /\ indexers'[i].status = "Stopped"
                   /\ indexers'[i].indexer_type = created[i].indexer_type
                   /\ indexers'[i].target_url = created[i].target_url
                   /\ workers'[w].res = "Ok"
                   /\ DOMAIN indexers' = DOMAIN indexers]_vars

C10_Witness ==
    \E w \in Workers :
        /\ workers[w].pc = "done"
        /\ workers[w].op = "stop"
        /\ workers[w].res = "Ok"
        /\ Row(workers[w].id).status = "Stopped"
        /\ Row(workers[w].id).target_url = created[workers[w].id].target_url
        /\ \E p \in Spawned(workers[w].id) : ~procs[p].alive

(* ---- C11 ---- *)
\* C11: no repository call changes the id, indexer_type or target_url of an
\* existing row or removes a row; update_status changes nothing but the status
\* of the row with the given id, update_status_and_process_id nothing but its
\* status and process_id, and every other row stays as it was.
C11_UpdatesTouchOnlyTheirColumns ==
    [][/\ \A i \in DOMAIN indexers :
            /\ i \in DOMAIN indexers'
            /\ indexers'[i].indexer_type = indexers[i].indexer_type
            /\ indexers'[i].target_url = indexers[i].target_url
       /\ call'.fn = "update_status"
            => /\ DOMAIN indexers' = DOMAIN indexers
               /\ \A i \in DOMAIN indexers :
                    /\ indexers'[i].process_id = indexers[i].process_id
                    /\ i # call'.id => indexers'[i] = indexers[i]
               /\ call'.id \in DOMAIN indexers
                    => indexers'[call'.id].status = call'.arg[1]
       /\ call'.fn = "update_status_and_process_id"
            => /\ DOMAIN indexers' = DOMAIN indexers
               /\ \A i \in DOMAIN indexers :
                    i # call'.id => indexers'[i] = indexers[i]
               /\ call'.id \in DOMAIN indexers
                    => /\ indexers'[call'.id].status = call'.arg[1]
                       /\ indexers'[call'.id].process_id = Some(call'.arg[2])]_vars

C11_Witness ==
    /\ call.fn = "update_status_and_process_id"
    /\ call.id \in DOMAIN indexers
    /\ indexers[call.id].status = "Running"
    /\ \E j \in DOMAIN indexers :
         /\ j # call.id
         /\ indexers[j].status = "Created"
         /\ indexers[j].process_id = NoPid
         /\ indexers[j].target_url # indexers[call.id].target_url

(* ---- C12 ---- *)
\* C12: when the send of the start message fails during create, the row that
\* was inserted stays in the table with status Created and no process id, no
\* message is on the start queue for it, and the request is answered as a
\* success that returns the id.
C12_FailedSendKeepsCreatedRecord ==
    [][\A w \in Workers :
         (workers[w].pc = "send" /\ workers'[w].hres = "QueueError")
         => LET i == workers[w].id
            IN  /\ i \in DOMAIN indexers'
                /\ indexers' = indexers
                /\ indexers'[i].status = "Created"
                /\ indexers'[i].process_id = NoPid
                /\ startQueue' = startQueue
                /\ workers'[w].pc = "done"
                /\ workers'[w].res = "Ok"
                /\ i \in known']_vars

C12_Witness ==
    \E w \in Workers :
        /\ workers[w].pc = "done"
        /\ workers[w].op = "create"
        /\ workers[w].hres = "QueueError"
        /\ workers[w].res = "Ok"
        /\ workers[w].id \in DOMAIN indexers
        /\ Row(workers[w].id).status = "Created"
        /\ startQueue[workers[w].id] = 0

(* ---- C13 ---- *)
\* a stored row whose status and type texts both name a variant
Recognised(row) ==
    /\ row.status \in IndexerStatus
    /\ row.indexer_type \in IndexerType

\* C13: converting a stored row whose status text or type text names no variant
\* fails with VariantNotFound (get reports it as a parse error and returns no
\* model), never with a model that carries some default; converting a row with
\* recognised texts gives the model with the row's id, status, type,
\* process_id and target_url.
C13_UnknownTextIsParseError ==
    /\ \A i \in DOMAIN indexers :
         LET r == TryFromIndexerDb(i, indexers[i])
         IN  IF Recognised(indexers[i])
             THEN /\ r.ok
                  /\ r.model = [id |-> i,
                                status |-> indexers[i].status,
                                process_id |-> indexers[i].process_id,
                                indexer_type |-> indexers[i].indexer_type,
                                target_url |-> indexers[i].target_url]
             ELSE /\ ~r.ok
                  /\ r.err = "VariantNotFound"
    /\ (call.fn = "get" /\ call.id \in DOMAIN indexers)
         => IF Recognised(indexers[call.id])
            THEN /\ call.res = "Ok"
                 /\ call.model[1].id = call.id
                 /\ call.model[1].process_id = indexers[call.id].process_id
                 /\ call.model[1].target_url = indexers[call.id].target_url
            ELSE /\ call.res = "ParseError"
                 /\ call.model = NoModel

C13_Witness ==
    /\ call.fn = "get"
    /\ call.id \in DOMAIN indexers
    /\ indexers[call.id].status = "InvalidStatus"
    /\ call.res = "ParseError"
    /\ \E j \in DOMAIN indexers :
         /\ Recognised(indexers[j])
         /\ indexers[j].process_id = Some(TestPid)

(* ---- C14 ---- *)
\* C14: resolving the handler of an indexer type never raises while a request
\* is being served: a type without a handler is answered with a configuration
\* error, and Webhook resolves to the Webhook handler.
C14_ResolveNeverRaises ==
    call.fn = "get_indexer_handler"
    => /\ call.handler # "unimplemented"
       /\ call.arg[1] = "Webhook" => call.handler = "WebhookIndexer"
       /\ call.arg[1] # "Webhook" => call.handler = "ConfigurationError"

(* ---- C16 ---- *)
\* C16: a POST to /v1/indexers/start/{id} is dispatched to the start operation
\* and a POST to /v1/indexers/stop/{id} to the stop operation, for every id;
\* neither is answered by the 404 fallback.
C16_StartStopAreRouted ==
    \A i \in Ids :
        /\ (call.fn = "app_router"
              /\ call.arg = <<"POST", <<"v1", "indexers", "start", ToString(i)>>>>)
           => /\ call.handler = "start_indexer"
              /\ StatusCode(call.handler) # "404"
        /\ (call.fn = "app_router"
              /\ call.arg = <<"POST", <<"v1", "indexers", "stop", ToString(i)>>>>)
           => /\ call.handler = "stop_indexer"
              /\ StatusCode(call.handler) # "404"

(* ---- C17 ---- *)
\* C17: over its whole lifetime an indexer has at most one process spawned for
\* it, whatever the interleaving of its start message, a duplicate of that
\* message and a direct start request.
C17_AtMostOneProcessPerIndexer ==
    \A i \in Ids : Cardinality(Spawned(i)) <= 1

(* ---- C15 ---- *)
\* the recorded process of a Running indexer is gone
DeadRunning(i) ==
    /\ i \in DOMAIN indexers
    /\ indexers[i].status = "Running"
    /\ indexers[i].process_id # NoPid
    /\ ~procs[indexers[i].process_id[1]].alive

\* a stop of indexer i is being served or has been served
StopSeen(i) ==
    \/ workers["http"].op = "stop" /\ workers["http"].id = i
    \/ i \in DOMAIN indexers /\ indexers[i].status \in {"Stopped", "FailedStopping"}

\* C15: once the process of a Running indexer has died, and unless a stop of
\* that indexer comes in, a fair scheduler leads to a failure message bearing
\* its id having been sent and to the status FailedRunning.
C15_DeathLeadsToFailedRunning ==
    \A i \in Ids :
        /\ (DeadRunning(i) /\ ~StopSeen(i))
              ~> (StopSeen(i) \/ \E p \in Spawned(i) : procs[p].reported)
        /\ (DeadRunning(i) /\ ~StopSeen(i))
              ~> (StopSeen(i)
                    \/ (i \in DOMAIN indexers /\ indexers[i].status = "FailedRunning"))

(* ---- C18 ---- *)
\* the queue a consumer reads
QueueOf(w) == IF w = "start_consumer" THEN startQueue ELSE failQueue

\* both queues are empty
QueuesEmpty == \A i \in Ids : startQueue[i] = 0 /\ failQueue[i] = 0

\* C18: a start or fail taken from a queue that ends in PreconditionFailed has
\* changed neither the record nor the processes; the consumer's next step
\* deletes that message from its queue and returns to polling, without a second
\* attempt; and under a fair scheduler both queues end up empty for good.
C18_PreconditionFailedIsDropped ==
    /\ [][\A w \in Workers \ {"http"} :
            /\ (workers[w].pc # "done" /\ workers'[w].pc = "done"
                  /\ workers'[w].res = "PreconditionFailed")
               => /\ indexers' = indexers
                  /\ procs' = procs
            /\ (workers[w].pc = "done" /\ workers[w].res = "PreconditionFailed"
                  /\ workers'[w] # workers[w])
               => /\ workers'[w] = Idle
                  /\ indexers' = indexers
                  /\ procs' = procs
                  /\ QueueOf(w)[workers[w].id] > 0
                  /\ QueueOf(w)' = [QueueOf(w) EXCEPT ![workers[w].id] = @ - 1]]_vars
    /\ <>[]QueuesEmpty

C18_Witness ==
    LET w == workers["start_consumer"]
    IN  /\ w.pc = "done"
        /\ w.op = "start"
        /\ w.res = "PreconditionFailed"
        /\ startQueue[w.id] = 1
        /\ w.id \in DOMAIN indexers
        /\ indexers[w.id].status = "Running"

(* ---- C19 ---- *)
\* C19: under a fair scheduler an indexer with a start message on the queue
\* leaves Created; it leaves Created only for Running with the id of a process
\* spawned for it, or for FailedRunning; and after a start that the consumer
\* completed successfully the consumer's next step deletes the message.
C19_StartMessageLeadsOutOfCreated ==
    /\ \A i \in Ids :
         (startQueue[i] > 0)
            ~> (i \in DOMAIN indexers /\ indexers[i].status # "Created")
    /\ [][/\ \A i \in DOMAIN indexers :
               (indexers[i].status = "Created" /\ indexers'[i].status # "Created")
               => \/ /\ indexers'[i].status = "Running"
                     /\ indexers'[i].process_id # NoPid
                     /\ indexers'[i].process_id[1] \in Spawned(i)
                  \/ indexers'[i].status = "FailedRunning"
          /\ LET w == workers["start_consumer"]
             IN  (w.pc = "done" /\ w.res = "Ok" /\ workers'["start_consumer"] # w)
                 => /\ startQueue[w.id] > 0
                    /\ startQueue' = [startQueue EXCEPT ![w.id] = @ - 1]]_vars

C19_Witness ==
    LET w == workers["start_consumer"]
    IN  /\ w.pc = "done"
        /\ w.op = "start"
        /\ w.res = "Ok"
        /\ startQueue[w.id] = 1
        /\ indexers[w.id].status = "Running"
        /\ indexers[w.id].process_id # NoPid
        /\ Spawned(w.id) = {indexers[w.id].process_id[1]}

C21_MissingIdIsNotFound ==
    [][(call'.fn \in ById /\ call' # call /\ call'.id \notin DOMAIN indexers)
       => /\ indexers' = indexers
          /\ call'.model = NoModel
          /\ call'.res = (IF call'.arg = <<"pool">> THEN "PoolError"
                          ELSE IF call'.arg = <<"database">> THEN "InternalServerError"
                          ELSE "NotFound")]_vars

C21_Witness ==
    /\ call.fn = "update_status_and_process_id"
    /\ call.id \in Ids
    /\ call.id \notin DOMAIN indexers
    /\ call.res = "NotFound"
    /\ DOMAIN indexers # {}

(* ---- C22 ---- *)
\* the stored rows a get_all with the filter of this call is about
Matching(c) ==
    IF c.arg = <<None>> THEN DOMAIN indexers
    ELSE {i \in DOMAIN indexers : <<indexers[i].status>> = c.arg}

\* the list carries one indexer for each row of `ids`, with that row's values
ListsExactly(c, ids) ==
    /\ c.res = "Ok"
    /\ {m.id : m \in c.models} = ids
    /\ Cardinality(c.models) = Cardinality(ids)
    /\ \A m \in c.models :
           /\ m.status = indexers[m.id].status
           /\ m.indexer_type = indexers[m.id].indexer_type
           /\ m.process_id = indexers[m.id].process_id
           /\ m.target_url = indexers[m.id].target_url

\* C22 as stated: get_all with a status filter returns exactly the stored
\* indexers whose status equals the filter value, with no filter every stored
\* indexer, and changes no record.
C22_GetAllReturnsMatching ==
    [][(call'.fn = "get_all" /\ call' # call)
       => /\ ListsExactly(call', Matching(call'))
          /\ indexers' = indexers]_vars

\* C22: get_all changes no record; when the status and type text of every row
\* it selects (the rows whose status equals the filter value, or every row with
\* no filter) is recognised it returns exactly those rows as indexers, and when
\* one selected row is not recognised it returns ParseError and no list at all.
C22_GetAllReturnsMatchingOrParseError ==
    [][(call'.fn = "get_all" /\ call' # call)
       => /\ indexers' = indexers
          /\ IF \A i \in Matching(call') : Recognised(indexers[i])
             THEN ListsExactly(call', Matching(call'))
             ELSE call'.res = "ParseError" /\ call'.models = {}]_vars

C22_Witness ==
    /\ call.fn = "get_all"
    /\ call.arg = <<"Running">>
    /\ call.res = "Ok"
    /\ Cardinality(call.models) = 1
    /\ Cardinality(DOMAIN indexers) = 2
    /\ \E i \in DOMAIN indexers : ~Recognised(indexers[i])

(* ---- C23 ---- *)
\* the execution contexts that drain the queues
Consumers == {"start_consumer", "fail_consumer"}

\* some message on the start queue or on the failure queue carries the id
Queued(i) == startQueue[i] > 0 \/ failQueue[i] > 0

\* C23: in every reachable state every id carried by a message on the start
\* queue or on the failure queue is the id of a stored record, and no queue
\* consumer is answered NotFound for the message it took.
C23_QueuedIdsHaveRecords ==
    /\ \A i \in Ids : Queued(i) => i \in DOMAIN indexers
    /\ \A w \in Consumers : workers[w].res # "NotFound"

\* both queues hold a message at once, and a consumer has finished one
C23_Witness ==
    /\ \E i \in Ids : startQueue[i] > 0 /\ i \in DOMAIN indexers
    /\ \E i \in Ids : failQueue[i] > 0 /\ i \in DOMAIN indexers
    /\ \E w \in Consumers : workers[w].pc = "done"


====
